---- MODULE Spec2Model ----
(***************************************************************************)
(* Booking admission and lifecycle of the property-rental platform:        *)
(* BookingSerializer (listings/serializers.py), BookingViewSet             *)
(* (listings/views.py), the Booking / Property / Notification models       *)
(* (models.py) and the helpers of listings/utils.py.                       *)
(*                                                                         *)
(* Dates are day numbers, prices are whole currency units (Decimal times   *)
(* an integer number of nights is exact).                                  *)
(***************************************************************************)
EXTENDS Integers, FiniteSets, Sequences, TLC

\* ------------------------------------------------------------------ bounds
MaxDate == 3            \* request dates range over 1..MaxDate
MaxBookings == 2        \* booking rows ever inserted
MaxNotifications == 2   \* notification rows ever inserted
MaxInflight == 2        \* admission requests between validate() and save()
MaxTasks == 2           \* task messages ever sent
MaxRecipients == 3      \* addresses in one bulk send
MaxReviews == 2         \* review rows ever inserted

\* --------------------------------------------------------------- constants
\* Python's None: what data.get(...) returns for a field the request omits
None == -1
\* status omitted from the request body
NoStatus == "omitted"

Users == {"u1", "u2", "u3"}
PropertyIds == {1, 2}
\* a property id no row has
MissingPropertyId == 3

\* Booking.Status of the older listings/models.py: three values only
Status_legacy == {"pending", "confirmed", "canceled"}

\* Booking.Status (models.py)
Status == {"pending", "confirmed", "canceled", "cancelled", "completed"}

Prices == {50, 100}
ClientTotal == 1

VARIABLES
    properties,     \* Property rows: property_id -> record
    bookings,       \* Booking rows: booking_id -> record
    booking_seq,    \* last booking_id handed out by the AutoField
    notifications,  \* Notification rows, in creation order
    today,          \* timezone.now().date()
    inflight,       \* validated admission requests not yet saved
    tasks,          \* Celery task messages, in the order they were sent
    reviews,        \* Review rows, in creation order
    resp            \* outcome of the last request

vars == <<properties, bookings, booking_seq, notifications, today, inflight, tasks,
          reviews, resp>>

\* what the last request returned: HTTP status, failure name ("" on success) and
\* the booking / property it is about (0: none)
Response(op, code, error, id) == [op |-> op, code |-> code, error |-> error, id |-> id]
\* no response is waiting to be sent
Idle == Response("idle", 0, "", 0)

\* ------------------------------------------------------------- pure helpers

\* Booking.duration_days / (end_date - start_date).days
duration_days(start_date, end_date) == end_date - start_date

\* the total computed without the duration check
calculate_booking_total_unchecked(price_per_night, start_date, end_date) ==
    price_per_night * duration_days(start_date, end_date)

\* utils.calculate_booking_total; None stands for the raised ValueError
calculate_booking_total(price_per_night, start_date, end_date) ==
    LET duration == duration_days(start_date, end_date)
    IN  IF duration <= 0 THEN None ELSE price_per_night * duration

\* the overlap query with the status filter narrowed to confirmed bookings
overlapping_bookings_confirmed_only(bks, property_id, start_date, end_date, instance) ==
    {b \in DOMAIN bks :
        /\ bks[b].property = property_id
        /\ bks[b].status \in {"confirmed"}
        /\ bks[b].start_date < end_date
        /\ bks[b].end_date > start_date
        /\ b # instance}

\* the queryset of BookingSerializer.validate:
\* filter(property=.., status__in=['pending','confirmed'],
\*        start_date__lt=end_date, end_date__gt=start_date).exclude(booking_id=instance)
overlapping_bookings(bks, property_id, start_date, end_date, instance) ==
    {b \in DOMAIN bks :
        /\ bks[b].property = property_id
        /\ bks[b].status \in {"pending", "confirmed"}
        /\ bks[b].start_date < end_date
        /\ bks[b].end_date > start_date
        /\ b # instance}

\* the availability decision with the is_available flag left out
check_property_availability_ignores_flag(props, bks, property_id, start_date, end_date, exclude_booking) ==
    overlapping_bookings(bks, property_id, start_date, end_date, exclude_booking) = {}

\* utils.check_property_availability
check_property_availability(props, bks, property_id, start_date, end_date, exclude_booking) ==
    IF ~props[property_id].is_available THEN FALSE
    ELSE overlapping_bookings(bks, property_id, start_date, end_date, exclude_booking) = {}

\* UniqueConstraint(fields=['property','start_date','end_date']) of Booking.Meta,
\* evaluated by the database against every other row, whatever its status
unique_property_booking_dates(bks, property_id, start_date, end_date, instance) ==
    \A b \in DOMAIN bks :
        b # instance =>
            ~(/\ bks[b].property = property_id
              /\ bks[b].start_date = start_date
              /\ bks[b].end_date = end_date)

\* Booking.clean: "" or the ValidationError it raises.  Django runs clean()
\* from full_clean() only; ModelSerializer.save() and Model.save() do not call
\* it, so no request handler evaluates these checks.
clean(props, booking, now) ==
    IF booking.start_date >= booking.end_date THEN "InvalidRange"
    ELSE IF booking.start_date < now THEN "PastDate"
    ELSE IF booking.guests > props[booking.property].max_guests THEN "GuestLimitExceeded"
    ELSE ""

\* BookingViewSet.get_queryset: Q(user=user) | Q(property__host=user)
get_queryset(props, bks, user) ==
    {b \in DOMAIN bks : bks[b].user = user \/ props[bks[b].property].host = user}

\* ------------------------------------------------------------------- state

Init ==
    /\ properties = [p \in PropertyIds |->
                        [host |-> IF p = 1 THEN "u1" ELSE "u3",
                         price_per_night |-> 50,
                         max_guests |-> 2,
                         is_available |-> TRUE]]
    /\ bookings = <<>>
    /\ booking_seq = 0
    /\ notifications = <<>>
    /\ today = 1
    /\ inflight = {}
    /\ tasks = <<>>
    /\ reviews = <<>>
    /\ resp = Idle

\* --------------------------------------------------- BookingSerializer

\* One request body as it reaches BookingSerializer.validate:
\* property_id / guests are None when omitted, status is NoStatus when omitted.
AllRequestData ==
    [property_id : PropertyIds \cup {MissingPropertyId, None},
     start_date  : 1..MaxDate,
     end_date    : 1..MaxDate,
     guests      : {None, 2, 3},
     status      : Status \cup {NoStatus}]

\* The requests the actions draw from: a field validate() never reads on the
\* path the request takes (it has raised before) is given one value only.
RequestData ==
    {r \in AllRequestData :
        /\ r.property_id \in {None, MissingPropertyId} =>
               r.start_date = 1 /\ r.end_date = 2 /\ r.guests = 2
        /\ r.guests = 3 => r.start_date = 1 /\ r.end_date = 2
        /\ (\/ r.property_id \in {None, MissingPropertyId}
            \/ r.guests # 2
            \/ r.start_date >= r.end_date) => r.status = NoStatus}

\* BookingSerializer.validate, the checks in the order of the code.  The
\* result is "" when validation passes, otherwise the name of the failure:
\*   PropertyRequired   "Property ID is required"
\*   NotFound           "Property does not exist"
\*   Unavailable        "This property is not available"
\*   TypeError          None > max_guests (guests omitted): not a ValidationError
\*   GuestLimitExceeded "Maximum N guests allowed"
\*   InvalidRange       "Check-out date must be after check-in date"
\*   Conflict           "Dates are not available"
validate(props, bks, data, instance) ==
    IF data.property_id = None \/ data.property_id = 0 THEN "PropertyRequired"
    ELSE IF data.property_id \notin DOMAIN props THEN "NotFound"
    ELSE IF ~props[data.property_id].is_available THEN "Unavailable"
    ELSE IF data.guests = None THEN "TypeError"
    ELSE IF data.guests > props[data.property_id].max_guests THEN "GuestLimitExceeded"
    ELSE IF data.start_date >= data.end_date THEN "InvalidRange"
    ELSE IF overlapping_bookings(bks, data.property_id, data.start_date,
                                 data.end_date, instance) # {} THEN "Conflict"
    ELSE ""

\* the total taken from the request body instead of being computed
validated_total_price_from_client(props, data, client_total) == client_total

\* data['total_price'] = property_obj.price_per_night * duration
\* (the value the client sent in total_price is overwritten)
validated_total_price(props, data, client_total) ==
    props[data.property_id].price_per_night * duration_days(data.start_date, data.end_date)

\* status of the row built by ModelSerializer.create: 'status' is a writable
\* field (not in read_only_fields), the model default applies when omitted
create_status(data) ==
    IF data.status = NoStatus THEN "pending" ELSE data.status

\* status of the row after ModelSerializer.update: setattr for every key of
\* validated_data, so an omitted status keeps the stored value
update_status(old, data) ==
    IF data.status = NoStatus THEN old ELSE data.status

\* HTTP status of a failed request: ValidationError is rendered as 400, any
\* other exception leaves the view unhandled (500)
ErrorCode(error) ==
    IF error \in {"TypeError", "IntegrityError"} THEN 500 ELSE 400

\* the validated_data handed to save()
ValidatedData(props, user, data, client_total) ==
    [user |-> user,
     property |-> data.property_id,
     start_date |-> data.start_date,
     end_date |-> data.end_date,
     guests |-> data.guests,
     total_price |-> validated_total_price(props, data, client_total),
     status |-> create_status(data)]

\* ------------------------------------------------------------ BookingViewSet

\* POST /bookings/ : is_valid() then serializer.save(), in one step
Create(user, data) ==
    /\ resp = Idle
    /\ LET error == validate(properties, bookings, data, None) IN
       IF error # "" THEN
               /\ resp' = Response("create", ErrorCode(error), error, 0)
               /\ UNCHANGED <<properties, bookings, booking_seq, notifications, today, reviews, tasks, inflight>>
          ELSE IF ~unique_property_booking_dates(bookings, data.property_id,
                                                 data.start_date, data.end_date, None) THEN
               /\ resp' = Response("create", 500, "IntegrityError", 0)
               /\ UNCHANGED <<properties, bookings, booking_seq, notifications, today, reviews, tasks, inflight>>
          ELSE
               /\ booking_seq < MaxBookings
               /\ booking_seq' = booking_seq + 1
               /\ bookings' = bookings @@
                      (booking_seq + 1 :> ValidatedData(properties, user, data, ClientTotal))
               /\ resp' = Response("create", 201, "", booking_seq + 1)
               /\ UNCHANGED <<properties, notifications, today, reviews, tasks, inflight>>

\* PUT / PATCH /bookings/{pk}/ : get_object(), is_valid(), serializer.save()
Update(user, pk, data) ==
    /\ resp = Idle
    /\ IF pk \notin get_queryset(properties, bookings, user) THEN
               /\ resp' = Response("update", 404, "Http404", pk)
               /\ UNCHANGED <<properties, bookings, booking_seq, notifications, today, reviews, tasks, inflight>>
          ELSE LET error == validate(properties, bookings, data, pk) IN
               IF error # "" THEN
                   /\ resp' = Response("update", ErrorCode(error), error, pk)
                   /\ UNCHANGED <<properties, bookings, booking_seq, notifications, today, reviews, tasks, inflight>>
               ELSE IF ~unique_property_booking_dates(bookings, data.property_id,
                                                      data.start_date, data.end_date, pk) THEN
                   /\ resp' = Response("update", 500, "IntegrityError", pk)
                   /\ UNCHANGED <<properties, bookings, booking_seq, notifications, today, reviews, tasks, inflight>>
               ELSE
                   /\ bookings' = [bookings EXCEPT ![pk] =
                          [user |-> @.user,
                           property |-> data.property_id,
                           start_date |-> data.start_date,
                           end_date |-> data.end_date,
                           guests |-> data.guests,
                           total_price |-> validated_total_price(properties, data, ClientTotal),
                           status |-> update_status(@.status, data)]]
                   /\ resp' = Response("update", 200, "", pk)
                   /\ UNCHANGED <<properties, booking_seq, notifications, today, reviews, tasks, inflight>>

\* rows of Notification that reference the booking (on_delete=CASCADE)
RemoveBookingNotifications(ns, pk) ==
    SelectSeq(ns, LAMBDA n : n.booking # pk)

\* DELETE /bookings/{pk}/
Destroy(user, pk) ==
    /\ resp = Idle
    /\ IF pk \notin get_queryset(properties, bookings, user) THEN
               /\ resp' = Response("destroy", 404, "Http404", pk)
               /\ UNCHANGED <<properties, bookings, booking_seq, notifications, today, reviews, tasks, inflight>>
          ELSE
               /\ bookings' = [b \in DOMAIN bookings \ {pk} |-> bookings[b]]
               /\ notifications' = RemoveBookingNotifications(notifications, pk)
               /\ resp' = Response("destroy", 204, "", pk)
               /\ UNCHANGED <<properties, booking_seq, today, reviews, tasks, inflight>>

\* utils.create_notification: Notification.objects.create inside try/except;
\* a failed insert is logged and swallowed (stored = FALSE)
create_notification(ns, user, notification_type, booking, property, stored) ==
    IF stored
    THEN Append(ns, [user |-> user, notification_type |-> notification_type,
                     booking |-> booking, property |-> property, is_read |-> FALSE])
    ELSE ns

\* create_notification letting the failed insert propagate to its caller
create_notification_reraises(stored) == ~stored

\* whether create_notification raises into the view: `except Exception`
\* logs the failure and returns None, so it never does
create_notification_raises(stored) == FALSE

\* the response of confirm and cancel after booking.save() and
\* create_notification: an exception leaving create_notification would leave
\* the view unhandled
transition_response(op, pk, stored) ==
    IF create_notification_raises(stored)
    THEN Response(op, 500, "Exception", pk)
    ELSE Response(op, 200, "", pk)

\* confirm without the host check
confirm_error_no_host_check(props, booking, user) ==
    IF booking.status # "pending" THEN "PreconditionFailed" ELSE ""

\* the guards of BookingViewSet.confirm, "" when the transition is allowed
confirm_error(props, booking, user) ==
    IF props[booking.property].host # user THEN "Forbidden"
    ELSE IF booking.status # "pending" THEN "PreconditionFailed"
    ELSE ""

\* cancel refusing cancelled bookings only
cancel_error_completed_allowed(props, booking, user) ==
    IF booking.status \in {"canceled", "cancelled"} THEN "PreconditionFailed" ELSE ""

\* the guard of BookingViewSet.cancel
cancel_error(props, booking, user) ==
    IF booking.status \notin {"pending", "confirmed"} THEN "PreconditionFailed"
    ELSE ""

\* complete without the checkout-date check
complete_error_no_date_check(props, booking, user, now) ==
    IF props[booking.property].host # user THEN "Forbidden"
    ELSE IF booking.status # "confirmed" THEN "PreconditionFailed"
    ELSE ""

\* the guards of BookingViewSet.complete
complete_error(props, booking, user, now) ==
    IF props[booking.property].host # user THEN "Forbidden"
    ELSE IF booking.status # "confirmed" THEN "PreconditionFailed"
    ELSE IF booking.end_date > now THEN "PreconditionFailed"
    ELSE ""

\* recipient of the notification of BookingViewSet.cancel
cancel_recipient(props, booking, user) ==
    IF user = booking.user THEN props[booking.property].host ELSE booking.user

\* 403 for the host check, 400 for the status / date guards
GuardCode(error) == IF error = "Forbidden" THEN 403 ELSE 400

\* POST /bookings/{pk}/confirm/
confirm(user, pk, stored) ==
    /\ resp = Idle
    /\ IF pk \notin get_queryset(properties, bookings, user) THEN
           /\ resp' = Response("confirm", 404, "Http404", pk)
           /\ UNCHANGED <<properties, bookings, booking_seq, notifications, today, reviews, tasks, inflight>>
       ELSE LET error == confirm_error(properties, bookings[pk], user) IN
           IF error # "" THEN
               /\ resp' = Response("confirm", GuardCode(error), error, pk)
               /\ UNCHANGED <<properties, bookings, booking_seq, notifications, today, reviews, tasks, inflight>>
           ELSE
               /\ Len(notifications) < MaxNotifications
               /\ bookings' = [bookings EXCEPT ![pk].status = "confirmed"]
               /\ notifications' = create_notification(notifications, bookings[pk].user,
                                       "booking_confirmed", pk, bookings[pk].property, stored)
               /\ resp' = transition_response("confirm", pk, stored)
               /\ UNCHANGED <<properties, booking_seq, today, reviews, tasks, inflight>>

\* POST /bookings/{pk}/cancel/
cancel(user, pk, stored) ==
    /\ resp = Idle
    /\ IF pk \notin get_queryset(properties, bookings, user) THEN
           /\ resp' = Response("cancel", 404, "Http404", pk)
           /\ UNCHANGED <<properties, bookings, booking_seq, notifications, today, reviews, tasks, inflight>>
       ELSE LET error == cancel_error(properties, bookings[pk], user) IN
           IF error # "" THEN
               /\ resp' = Response("cancel", GuardCode(error), error, pk)
               /\ UNCHANGED <<properties, bookings, booking_seq, notifications, today, reviews, tasks, inflight>>
           ELSE
               /\ Len(notifications) < MaxNotifications
               /\ bookings' = [bookings EXCEPT ![pk].status = "cancelled"]
               /\ notifications' = create_notification(notifications,
                                       cancel_recipient(properties, bookings[pk], user),
                                       "booking_cancelled", pk, bookings[pk].property, stored)
               /\ resp' = transition_response("cancel", pk, stored)
               /\ UNCHANGED <<properties, booking_seq, today, reviews, tasks, inflight>>

\* POST /bookings/{pk}/complete/
complete(user, pk) ==
    /\ resp = Idle
    /\ IF pk \notin get_queryset(properties, bookings, user) THEN
           /\ resp' = Response("complete", 404, "Http404", pk)
           /\ UNCHANGED <<properties, bookings, booking_seq, notifications, today, reviews, tasks, inflight>>
       ELSE LET error == complete_error(properties, bookings[pk], user, today) IN
           IF error # "" THEN
               /\ resp' = Response("complete", GuardCode(error), error, pk)
               /\ UNCHANGED <<properties, bookings, booking_seq, notifications, today, reviews, tasks, inflight>>
           ELSE
               /\ bookings' = [bookings EXCEPT ![pk].status = "completed"]
               /\ resp' = Response("complete", 200, "", pk)
               /\ UNCHANGED <<properties, booking_seq, notifications, today, reviews, tasks, inflight>>

\* -------------------------------------- admission as the server runs it
\* BookingSerializer.is_valid() and serializer.save() are separate database
\* statements with no transaction or lock around them (no ATOMIC_REQUESTS,
\* no transaction.atomic, no select_for_update): another request's statements
\* can run between them.

Slots == 1..MaxInflight

\* is_valid(): validate() against the rows visible now
CreateValidate(user, data, slot) ==
    /\ resp = Idle
    /\ \A r \in inflight : r.slot # slot
    /\ LET error == validate(properties, bookings, data, None) IN
       IF error # "" THEN
            /\ resp' = Response("create", ErrorCode(error), error, 0)
            /\ UNCHANGED <<properties, bookings, booking_seq, notifications, today, reviews, tasks, inflight>>
       ELSE
            /\ inflight' = inflight \cup
                   {[slot |-> slot, row |-> ValidatedData(properties, user, data, ClientTotal)]}
            /\ UNCHANGED <<properties, bookings, booking_seq, notifications, today, reviews, tasks, resp>>

\* serializer.save(): the INSERT, checked by the database constraints only
CreateSave(slot) ==
    /\ resp = Idle
    /\ \E r \in inflight :
        /\ r.slot = slot
        /\ inflight' = inflight \ {r}
        /\ IF ~unique_property_booking_dates(bookings, r.row.property,
                                             r.row.start_date, r.row.end_date, None) THEN
                /\ resp' = Response("create", 500, "IntegrityError", 0)
                /\ UNCHANGED <<properties, bookings, booking_seq, notifications, today, reviews, tasks>>
           ELSE
                /\ booking_seq < MaxBookings
                /\ booking_seq' = booking_seq + 1
                /\ bookings' = bookings @@ (booking_seq + 1 :> r.row)
                /\ resp' = Response("create", 201, "", booking_seq + 1)
                /\ UNCHANGED <<properties, notifications, today, reviews, tasks>>

\* --------------------------------- confirm / cancel as the server runs them
\* get_object() reads the row, the guards test the object in memory, then
\* booking.save() writes every field of that object: three statements with no
\* transaction, lock or status condition on the UPDATE.

\* get_object() and the guards of confirm (op = "confirm") or cancel
TransitionLoad(user, pk, op, slot) ==
    /\ resp = Idle
    /\ \A r \in inflight : r.slot # slot
    /\ IF pk \notin get_queryset(properties, bookings, user) THEN
           /\ resp' = Response(op, 404, "Http404", pk)
           /\ UNCHANGED <<properties, bookings, booking_seq, notifications, today, reviews, tasks, inflight>>
       ELSE LET error == IF op = "confirm"
                         THEN confirm_error(properties, bookings[pk], user)
                         ELSE cancel_error(properties, bookings[pk], user) IN
           IF error # "" THEN
               /\ resp' = Response(op, GuardCode(error), error, pk)
               /\ UNCHANGED <<properties, bookings, booking_seq, notifications, today, reviews, tasks, inflight>>
           ELSE
               /\ inflight' = inflight \cup
                      {[slot |-> slot, op |-> op, user |-> user, pk |-> pk, row |-> bookings[pk]]}
               /\ UNCHANGED <<properties, bookings, booking_seq, notifications, today, reviews, tasks, resp>>

\* booking.status = ...; booking.save(); create_notification(...); Response
TransitionSave(slot, stored) ==
    /\ resp = Idle
    /\ Len(notifications) < MaxNotifications
    /\ \E r \in inflight :
        /\ r.slot = slot
        /\ r.pk \in DOMAIN bookings
        /\ inflight' = inflight \ {r}
        /\ bookings' = [bookings EXCEPT ![r.pk] =
               [r.row EXCEPT !.status = IF r.op = "confirm" THEN "confirmed" ELSE "cancelled"]]
        /\ notifications' =
               IF r.op = "confirm"
               THEN create_notification(notifications, r.row.user,
                        "booking_confirmed", r.pk, r.row.property, stored)
               ELSE create_notification(notifications,
                        cancel_recipient(properties, r.row, r.user),
                        "booking_cancelled", r.pk, r.row.property, stored)
        /\ resp' = Response(r.op, 200, "", r.pk)
        /\ UNCHANGED <<properties, booking_seq, today, reviews, tasks>>

\* a caller evaluates calculate_booking_total(property_obj, start_date,
\* end_date); the response carries the arguments, the nightly price read from
\* the property and the returned total (error "ValueError" when it raised)
CalculateTotal(property_id, start_date, end_date) ==
    /\ resp = Idle
    /\ LET price == properties[property_id].price_per_night
           total == calculate_booking_total(price, start_date, end_date)
       IN  resp' = [op |-> "calculate_booking_total",
                    code |-> 0,
                    error |-> IF total = None THEN "ValueError" ELSE "",
                    id |-> property_id,
                    start_date |-> start_date, end_date |-> end_date,
                    price_per_night |-> price, total |-> total]
    /\ UNCHANGED <<properties, bookings, booking_seq, notifications, today, reviews, tasks, inflight>>

\* GET /properties/{pk}/availability/?start_date=..&end_date=.. ; a missing
\* or unparsable date is None
availability(pk, start_date, end_date) ==
    /\ resp = Idle
    /\ IF start_date = None \/ end_date = None THEN
           /\ resp' = [op |-> "availability", code |-> 400, error |-> "BadRequest", id |-> pk,
                       start_date |-> start_date, end_date |-> end_date, available |-> FALSE]
       ELSE
           /\ resp' = [op |-> "availability", code |-> 200, error |-> "", id |-> pk,
                       start_date |-> start_date, end_date |-> end_date,
                       available |->
                           /\ overlapping_bookings(bookings, pk, start_date, end_date, None) = {}
                           /\ properties[pk].is_available]
    /\ UNCHANGED <<properties, bookings, booking_seq, notifications, today, reviews, tasks, inflight>>

\* sum of total_price over the rows ids of bks
RECURSIVE total_spent(_, _)
total_spent(bks, ids) ==
    IF ids = {} THEN 0
    ELSE LET b == CHOOSE x \in ids : TRUE
         IN  bks[b].total_price + total_spent(bks, ids \ {b})

\* utils.get_user_booking_stats
get_user_booking_stats(bks, user) ==
    LET user_bookings == {b \in DOMAIN bks : bks[b].user = user}
        with(statuses) == {b \in user_bookings : bks[b].status \in statuses}
    IN  [total_bookings     |-> Cardinality(user_bookings),
         pending_bookings   |-> Cardinality(with({"pending"})),
         confirmed_bookings |-> Cardinality(with({"confirmed"})),
         completed_bookings |-> Cardinality(with({"completed"})),
         cancelled_bookings |-> Cardinality(with({"cancelled", "canceled"})),
         total_spent        |-> total_spent(bks, with({"confirmed", "completed"}))]

\* a caller evaluates get_user_booking_stats(user); the response carries the
\* user and the returned dict
BookingStats(user) ==
    /\ resp = Idle
    /\ resp' = [op |-> "get_user_booking_stats", code |-> 0, error |-> "", id |-> 0,
                user |-> user, stats |-> get_user_booking_stats(bookings, user)]
    /\ UNCHANGED <<properties, bookings, booking_seq, notifications, today, reviews, tasks, inflight>>

\* -------------------------------------------------- NotificationViewSet
\* A notification is addressed by its position in the table.

\* NotificationViewSet.get_queryset: filter(user=request.user)
notification_queryset(ns, user) == {i \in DOMAIN ns : ns[i].user = user}

\* POST /notifications/{pk}/mark_read/
mark_read(user, pk) ==
    /\ resp = Idle
    /\ IF pk \notin notification_queryset(notifications, user) THEN
           /\ resp' = Response("mark_read", 404, "Http404", pk)
           /\ UNCHANGED <<properties, bookings, booking_seq, notifications, today, reviews, tasks, inflight>>
       ELSE
           /\ notifications' = [notifications EXCEPT ![pk].is_read = TRUE]
           /\ resp' = Response("mark_read", 200, "", pk)
           /\ UNCHANGED <<properties, bookings, booking_seq, today, reviews, tasks, inflight>>

\* POST /notifications/mark_all_read/ : get_queryset().update(is_read=True)
mark_all_read(user) ==
    /\ resp = Idle
    /\ notifications' = [i \in DOMAIN notifications |->
                            IF i \in notification_queryset(notifications, user)
                            THEN [notifications[i] EXCEPT !.is_read = TRUE]
                            ELSE notifications[i]]
    /\ resp' = Response("mark_all_read", 200, "", 0)
    /\ UNCHANGED <<properties, bookings, booking_seq, today, reviews, tasks, inflight>>

\* DELETE /notifications/{pk}/
NotificationDestroy(user, pk) ==
    /\ resp = Idle
    /\ IF pk \notin notification_queryset(notifications, user) THEN
           /\ resp' = Response("notification_destroy", 404, "Http404", pk)
           /\ UNCHANGED <<properties, bookings, booking_seq, notifications, today, reviews, tasks, inflight>>
       ELSE
           /\ notifications' = SelectSeq([i \in DOMAIN notifications |->
                                   IF i = pk THEN [notifications[i] EXCEPT !.user = ""]
                                   ELSE notifications[i]],
                                   LAMBDA n : n.user # "")
           /\ resp' = Response("notification_destroy", 204, "", pk)
           /\ UNCHANGED <<properties, bookings, booking_seq, today, reviews, tasks, inflight>>

\* ------------------------------------------- reviews (PropertyViewSet.add_review)

\* property_obj.bookings.filter(user=.., status__in=['completed','confirmed']).exists()
has_booking(bks, property_id, user) ==
    \E b \in DOMAIN bks :
        /\ bks[b].property = property_id
        /\ bks[b].user = user
        /\ bks[b].status \in {"completed", "confirmed"}

\* property_obj.reviews.filter(user=request.user).exists()
already_reviewed(rvs, property_id, user) ==
    \E i \in DOMAIN rvs : rvs[i].property = property_id /\ rvs[i].user = user

\* the two checks of add_review, "" when the review may be written
add_review_error(bks, rvs, property_id, user) ==
    IF ~has_booking(bks, property_id, user) THEN "Forbidden"
    ELSE IF already_reviewed(rvs, property_id, user) THEN "AlreadyReviewed"
    ELSE ""

\* POST /properties/{pk}/add_review/ : get_object() and the two checks, on
\* the rows as read now (a rating outside 1..5 is refused by is_valid())
AddReviewCheck(user, property_id, rating, slot) ==
    /\ resp = Idle
    /\ \A r \in inflight : r.slot # slot
    /\ LET error == add_review_error(bookings, reviews, property_id, user) IN
       IF error # "" THEN
           /\ resp' = Response("add_review", GuardCode(error), error, property_id)
           /\ UNCHANGED <<properties, bookings, booking_seq, notifications, today, reviews, tasks, inflight>>
       ELSE IF rating \notin 1..5 THEN
           /\ resp' = Response("add_review", 400, "ValidationError", property_id)
           /\ UNCHANGED <<properties, bookings, booking_seq, notifications, today, reviews, tasks, inflight>>
       ELSE
           /\ inflight' = inflight \cup
                  {[slot |-> slot, op |-> "add_review", user |-> user,
                    property |-> property_id, rating |-> rating]}
           /\ UNCHANGED <<properties, bookings, booking_seq, notifications, today, reviews, tasks, resp>>

\* serializer.save(property=property_obj): the INSERT, checked by
\* UniqueConstraint(fields=['property','user']) only
AddReviewSave(slot) ==
    /\ resp = Idle
    /\ \E r \in inflight :
        /\ r.slot = slot
        /\ inflight' = inflight \ {r}
        /\ IF already_reviewed(reviews, r.property, r.user) THEN
               /\ resp' = Response("add_review", 500, "IntegrityError", r.property)
               /\ UNCHANGED <<properties, bookings, booking_seq, notifications, today, reviews, tasks>>
           ELSE
               /\ Len(reviews) < MaxReviews
               /\ reviews' = Append(reviews, [property |-> r.property, user |-> r.user,
                                              rating |-> r.rating])
               /\ resp' = Response("add_review", 201, "", r.property)
               /\ UNCHANGED <<properties, bookings, booking_seq, notifications, today, tasks>>

\* POST /reviews/ : ReviewSerializer has no property field and perform_create
\* passes the user only, so the INSERT has property_id NULL and the database
\* refuses it
ReviewCreate(user, rating) ==
    /\ resp = Idle
    /\ resp' = IF rating \notin 1..5
               THEN Response("review_create", 400, "ValidationError", 0)
               ELSE Response("review_create", 500, "IntegrityError", 0)
    /\ UNCHANGED <<properties, bookings, booking_seq, notifications, today, reviews, tasks, inflight>>

\* --------------------------------------------------------- PropertyViewSet

\* PUT / PATCH /properties/{pk}/ by the host: nightly price and availability
\* flag (PropertySerializer.validate_price_per_night rejects price <= 0)
PropertyUpdate(pk, price_per_night, is_available) ==
    /\ resp = Idle
    /\ price_per_night > 0
    /\ properties' = [properties EXCEPT ![pk].price_per_night = price_per_night,
                                        ![pk].is_available = is_available]
    /\ properties' # properties
    /\ resp' = Response("property_update", 200, "", pk)
    /\ UNCHANGED <<bookings, booking_seq, notifications, today, reviews, tasks, inflight>>

\* the response of the finished request is sent to the client
Respond ==
    /\ resp # Idle
    /\ resp' = Idle
    /\ UNCHANGED <<properties, bookings, booking_seq, notifications, today, reviews, tasks, inflight>>

\* the calendar day advances
Tick ==
    /\ resp = Idle
    /\ today < MaxDate
    /\ today' = today + 1
    /\ UNCHANGED <<properties, bookings, booking_seq, notifications, inflight, tasks, reviews, resp>>

\* ------------------------------------------------------ listings/utils.py

\* a caller evaluates check_property_availability(property_obj, start_date,
\* end_date, exclude_booking); exclude_booking is None or a booking id.  The
\* response carries the arguments and the returned boolean.
CheckAvailability(property_id, start_date, end_date, exclude_booking) ==
    /\ resp = Idle
    /\ resp' = [op |-> "check_property_availability", code |-> 200, error |-> "",
                id |-> property_id,
                start_date |-> start_date, end_date |-> end_date,
                exclude_booking |-> exclude_booking,
                available |-> check_property_availability(properties, bookings,
                                 property_id, start_date, end_date, exclude_booking)]
    /\ UNCHANGED <<properties, bookings, booking_seq, notifications, today, reviews, tasks, inflight>>

\* ------------------------------------------------------ listings/tasks.py

\* @shared_task(bind=True, max_retries=3, default_retry_delay=60)
max_retries == 3
\* raise self.retry(exc=exc, countdown=60)
retry_countdown == 60

\* the three booking email tasks
TaskNames == {"send_booking_confirmation_email",
              "send_booking_reminder_email",
              "send_booking_cancellation_email"}

\* what one attempt's send does: the mail is sent, the backend returns 0
\* messages, or something in the try block raises (invalid settings,
\* connection error, soft time limit)
SendOutcomes == {"sent", "zero", "raises"}

\* the body handed to the backend: the confirmation and reminder tasks render
\* an HTML template inside an inner try/except and fall back to a plain-text
\* body when rendering raises; the cancellation task builds plain text only
email_body(name, rendered) ==
    IF name # "send_booking_cancellation_email" /\ rendered THEN "html" ELSE "text"

\* an attempt in which a template failure is not caught
attempt_failed_on_template(name, rendered, outcome) ==
    \/ outcome = "raises"
    \/ outcome = "zero" /\ name # "send_booking_cancellation_email"
    \/ ~rendered /\ name # "send_booking_cancellation_email"

\* an attempt reaches the except branch: `if result == 0: raise` exists in
\* the confirmation and reminder tasks only; rendered tells whether
\* render_to_string returned
attempt_failed(name, rendered, outcome) ==
    \/ outcome = "raises"
    \/ outcome = "zero" /\ name # "send_booking_cancellation_email"

\* the retry test with the bound off by one
should_retry_once_more(retries) == retries <= max_retries

\* if self.request.retries < self.max_retries
should_retry(retries) == retries < max_retries

\* a failed attempt that also cancels the booking it is about
task_bookings_rollback(bks, task, failed) ==
    IF failed /\ task.booking \in DOMAIN bks
    THEN [bks EXCEPT ![task.booking].status = "cancelled"]
    ELSE bks

\* Booking rows after an attempt of a task: tasks.py imports no model and
\* issues no query, whatever the attempt's outcome
task_bookings(bks, task, failed) == bks

\* <task>.delay(booking_id, user_email, ...): a producer sends the message
apply_async(name, booking_id, user) ==
    /\ Len(tasks) < MaxTasks
    /\ tasks' = Append(tasks, [name |-> name, booking |-> booking_id, user |-> user,
                               state |-> "PENDING", retries |-> 0, countdown |-> 0,
                               runs |-> 0, logged |-> 0,
                               emails |-> 0, body |-> ""])
    /\ UNCHANGED <<properties, bookings, booking_seq, notifications, today, reviews, inflight, resp>>

\* a worker runs one attempt of task t; emails counts the messages the
\* backend reported as sent, body is the body of the last message handed to it
RunTask(t, rendered, outcome) ==
    /\ t \in DOMAIN tasks
    /\ tasks[t].state \in {"PENDING", "RETRY"}
    /\ LET task == tasks[t]
           failed == attempt_failed(task.name, rendered, outcome)
           handed == [task EXCEPT !.runs = @ + 1,
                                  !.emails = IF outcome = "sent" THEN @ + 1 ELSE @,
                                  !.body = IF outcome = "raises" THEN @
                                           ELSE email_body(task.name, rendered)]
       IN  /\ tasks' = [tasks EXCEPT ![t] =
                  IF ~failed THEN
                      [handed EXCEPT !.state = "SUCCESS"]
                  ELSE IF should_retry(task.retries) THEN
                      [handed EXCEPT !.state = "RETRY", !.retries = @ + 1,
                                     !.countdown = retry_countdown,
                                     !.logged = @ + 1]
                  ELSE
                      [handed EXCEPT !.state = "FAILURE", !.logged = @ + 1]]
           /\ bookings' = task_bookings(bookings, task, failed)
    /\ UNCHANGED <<properties, booking_seq, notifications, today, reviews, inflight, resp>>

\* the loop of send_bulk_promotional_emails from recipient i on; delivered[i]
\* tells whether send_mail for recipient i returned without raising
RECURSIVE bulk_loop(_, _, _, _)
bulk_loop(user_emails, delivered, i, result) ==
    IF i > Len(user_emails) THEN result
    ELSE bulk_loop(user_emails, delivered, i + 1,
            IF delivered[i]
            THEN [result EXCEPT !.successful_sends = @ + 1]
            ELSE [result EXCEPT !.failed_sends = @ + 1,
                                !.errors = Append(@, user_emails[i])])

\* the loop leaving at the first recipient whose send raises
RECURSIVE bulk_loop_aborting(_, _, _, _)
bulk_loop_aborting(user_emails, delivered, i, result) ==
    IF i > Len(user_emails) THEN result
    ELSE IF ~delivered[i]
         THEN [result EXCEPT !.failed_sends = @ + 1,
                             !.errors = Append(@, user_emails[i])]
         ELSE bulk_loop_aborting(user_emails, delivered, i + 1,
                  [result EXCEPT !.successful_sends = @ + 1])

\* the bulk send stopping at the first failure
send_bulk_promotional_emails_aborting(user_emails, delivered) ==
    bulk_loop_aborting(user_emails, delivered, 1,
        [total_emails |-> Len(user_emails), successful_sends |-> 0,
         failed_sends |-> 0, errors |-> <<>>])

\* tasks.send_bulk_promotional_emails: the returned result dict
send_bulk_promotional_emails(user_emails, delivered) ==
    bulk_loop(user_emails, delivered, 1,
        [total_emails |-> Len(user_emails), successful_sends |-> 0,
         failed_sends |-> 0, errors |-> <<>>])

Emails == {"a@x", "b@x", "c@x"}

\* recipient lists of up to MaxRecipients addresses
RecipientLists == UNION {[1..n -> Emails] : n \in 0..MaxRecipients}

\* a worker runs send_bulk_promotional_emails; the response carries the
\* arguments and the returned dict
RunBulk(user_emails, delivered) ==
    /\ resp = Idle
    /\ resp' = [op |-> "send_bulk_promotional_emails", code |-> 0, error |-> "", id |-> 0,
                user_emails |-> user_emails, delivered |-> delivered,
                result |-> send_bulk_promotional_emails(user_emails, delivered)]
    /\ UNCHANGED <<properties, bookings, booking_seq, notifications, today, reviews, tasks, inflight>>

\* ------------------------------------------------- requests one at a time

BookingIds == 1..MaxBookings

\* Booking lifecycle on property 1: every user acts on every booking
LifecycleRequests ==
    {r \in RequestData : r.property_id = 1 /\ r.guests = 2 /\ r.start_date < r.end_date}

Guests == {"u2"}

Next ==
    \/ \E user \in Guests, data \in LifecycleRequests : Create(user, data)
    \/ \E user \in Users, pk \in BookingIds, data \in LifecycleRequests : Update(user, pk, data)
    \/ \E user \in Users, pk \in BookingIds : Destroy(user, pk)
    \/ \E user \in Users, pk \in BookingIds, stored \in BOOLEAN : confirm(user, pk, stored)
    \/ \E user \in Users, pk \in BookingIds, stored \in BOOLEAN : cancel(user, pk, stored)
    \/ \E user \in Users, pk \in BookingIds : complete(user, pk)
    \/ \E user \in Guests : BookingStats(user)
    \/ Tick
    \/ Respond

Spec == Init /\ [][Next]_vars

\* Admission: every request shape, both properties, price and availability
\* changed by the host
AdmissionNext ==
    \/ \E user \in Guests, data \in RequestData : Create(user, data)
    \/ \E user \in Guests, pk \in BookingIds, data \in RequestData : Update(user, pk, data)
    \/ \E user \in Guests, pk \in BookingIds : Destroy(user, pk)
    \/ \E price \in Prices, avail \in BOOLEAN : PropertyUpdate(1, price, avail)
    \/ Respond

SpecAdmission == Init /\ [][AdmissionNext]_vars

\* Concurrent admission on property 1: the two statements of every request
\* interleave with the other requests'
ConcurrentRequests ==
    {r \in LifecycleRequests : r.status = NoStatus}

ConcurrentGuests == {"u2", "u3"}

ConcurrentNext ==
    \/ \E user \in ConcurrentGuests, data \in ConcurrentRequests, slot \in Slots :
           CreateValidate(user, data, slot)
    \/ \E slot \in Slots : CreateSave(slot)
    \/ \E user \in ConcurrentGuests, pk \in BookingIds, stored \in BOOLEAN :
           cancel(user, pk, stored)
    \/ Respond

SpecConcurrent == Init /\ [][ConcurrentNext]_vars

\* The availability helper against every booking set of property 1: bookings
\* of every status, the flag switched by the host
AvailabilityNext ==
    \/ \E user \in Guests, data \in LifecycleRequests : Create(user, data)
    \/ \E price \in Prices, avail \in BOOLEAN : PropertyUpdate(1, price, avail)
    \/ \E property_id \in PropertyIds, start_date \in 1..MaxDate, end_date \in 1..MaxDate :
           CalculateTotal(property_id, start_date, end_date)
    \/ \E pk \in PropertyIds, start_date \in 1..MaxDate \cup {None},
          end_date \in 1..MaxDate \cup {None} : availability(pk, start_date, end_date)
    \/ \E property_id \in PropertyIds, start_date \in 1..MaxDate, end_date \in 1..MaxDate,
          exclude_booking \in BookingIds \cup {None} :
           CheckAvailability(property_id, start_date, end_date, exclude_booking)
    \/ Respond

SpecAvailability == Init /\ [][AvailabilityNext]_vars

\* The email worker next to the request handlers: one booking of property 1,
\* confirmed by its host, while task messages are sent and attempted
TaskRequests ==
    {r \in ConcurrentRequests : r.start_date = 1 /\ r.end_date = 2}

TasksNext ==
    \/ \E user \in Guests, data \in TaskRequests : Create(user, data)
    \/ \E stored \in BOOLEAN : confirm("u1", 1, stored)
    \/ \E name \in TaskNames, user \in Guests : apply_async(name, 1, user)
    \/ \E t \in 1..MaxTasks, rendered \in BOOLEAN, outcome \in SendOutcomes :
           RunTask(t, rendered, outcome)
    \/ Respond

SpecTasks == Init /\ [][TasksNext]_vars

\* The worker running the bulk promotional send for every recipient list and
\* every pattern of failing sends
BulkNext ==
    \/ \E user_emails \in RecipientLists :
          \E delivered \in [DOMAIN user_emails -> BOOLEAN] : RunBulk(user_emails, delivered)
    \/ Respond

SpecBulk == Init /\ [][BulkNext]_vars

\* Notifications of confirm and cancel, with bookings made by a guest and by
\* the host of the property itself
NotifyGuests == {"u1", "u2"}

NotifyRequests ==
    {r \in ConcurrentRequests : r.end_date = r.start_date + 1}

NotifyNext ==
    \/ \E user \in NotifyGuests, data \in NotifyRequests : Create(user, data)
    \/ \E user \in Users, pk \in BookingIds, stored \in BOOLEAN : confirm(user, pk, stored)
    \/ \E user \in Users, pk \in BookingIds, stored \in BOOLEAN : cancel(user, pk, stored)
    \/ Respond

SpecNotify == Init /\ [][NotifyNext]_vars

\* Concurrent confirm and cancel requests on the bookings of property 1
TransitionsNext ==
    \/ \E user \in Guests, data \in NotifyRequests : Create(user, data)
    \/ \E user \in Users, pk \in BookingIds, op \in {"confirm", "cancel"}, slot \in Slots :
           TransitionLoad(user, pk, op, slot)
    \/ \E slot \in Slots, stored \in BOOLEAN : TransitionSave(slot, stored)
    \/ Respond

SpecTransitions == Init /\ [][TransitionsNext]_vars

\* The notifications resource next to the booking requests that create and
\* cascade-delete its rows
NotificationIds == 1..MaxNotifications

NotificationsNext ==
    \/ \E user \in Guests, data \in NotifyRequests : Create(user, data)
    \/ \E user \in Users, pk \in BookingIds, stored \in BOOLEAN : confirm(user, pk, stored)
    \/ \E user \in Users, pk \in BookingIds, stored \in BOOLEAN : cancel(user, pk, stored)
    \/ \E user \in Users, pk \in BookingIds : Destroy(user, pk)
    \/ \E user \in Users, pk \in NotificationIds : mark_read(user, pk)
    \/ \E user \in Users : mark_all_read(user)
    \/ \E user \in Users, pk \in NotificationIds : NotificationDestroy(user, pk)
    \/ Respond

SpecNotifications == Init /\ [][NotificationsNext]_vars

\* Reviews of property 1 while its bookings are confirmed and cancelled
Reviewers == {"u2", "u3"}

Ratings == {0, 5}

ReviewsNext ==
    \/ \E user \in Guests, data \in NotifyRequests : Create(user, data)
    \/ \E pk \in BookingIds, stored \in BOOLEAN : confirm("u1", pk, stored)
    \/ \E user \in Users, pk \in BookingIds, stored \in BOOLEAN : cancel(user, pk, stored)
    \/ \E user \in Reviewers, rating \in Ratings, slot \in Slots :
           AddReviewCheck(user, 1, rating, slot)
    \/ \E slot \in Slots : AddReviewSave(slot)
    \/ \E user \in Reviewers, rating \in Ratings : ReviewCreate(user, rating)
    \/ Respond

SpecReviews == Init /\ [][ReviewsNext]_vars

\* ------------------------------------------------------------------ claims

\* bookings that hold their dates
Active(b) == bookings[b].status \in {"pending", "confirmed"}

\* C1: under concurrent admission no state holds two pending/confirmed
\* bookings of one property with a.start < b.end and a.end > b.start (the
\* second of two overlapping requests is refused with Conflict).
C1_ConcurrentNoOverlap ==
    \A a \in DOMAIN bookings : \A b \in DOMAIN bookings :
        (/\ a # b
         /\ bookings[a].property = bookings[b].property
         /\ Active(a) /\ Active(b))
        => ~(/\ bookings[a].start_date < bookings[b].end_date
             /\ bookings[a].end_date > bookings[b].start_date)

\* the nights [start_date, end_date) a booking occupies
Nights(b) == bookings[b].start_date .. (bookings[b].end_date - 1)

\* C2: with requests handled one at a time, two different pending/confirmed
\* bookings of the same property never share a night.
C2_NoDoubleBooking ==
    \A a \in DOMAIN bookings : \A b \in DOMAIN bookings :
        (a # b /\ bookings[a].property = bookings[b].property /\ Active(a) /\ Active(b))
        => Nights(a) \cap Nights(b) = {}

\* C2 witness: two active bookings of one property, the second starting on the
\* day the first ends, the second admitted by the last request
C2_Witness ==
    /\ resp.op = "create" /\ resp.error = ""
    /\ \E a \in DOMAIN bookings :
        /\ a # resp.id
        /\ bookings[a].property = bookings[resp.id].property
        /\ Active(a) /\ Active(resp.id)
        /\ bookings[resp.id].start_date = bookings[a].end_date

\* the caller is the host of the booking's property
IsHost(user, b) == properties[bookings[b].property].host = user

\* C3: a confirm request sets the status to confirmed exactly when the caller
\* is the host of the booking's property and the booking is pending; every
\* other confirm request returns an error and leaves the bookings and the
\* notifications as they were.
C3_ConfirmGuard ==
    [][resp'.op = "confirm" =>
       \A user \in Users, pk \in {resp'.id}, stored \in BOOLEAN :
          confirm(user, pk, stored) =>
              IF pk \in DOMAIN bookings /\ IsHost(user, pk) /\ bookings[pk].status = "pending"
              THEN /\ resp'.error = ""
                   /\ bookings'[pk].status = "confirmed"
              ELSE /\ resp'.error # ""
                   /\ resp'.code >= 400
                   /\ bookings' = bookings
                   /\ notifications' = notifications]_vars

\* C3 witness: the host's confirm has just succeeded and the guest's
\* notification is stored
C3_Witness ==
    /\ resp.op = "confirm" /\ resp.error = ""
    /\ bookings[resp.id].status = "confirmed"
    /\ \E i \in 1..Len(notifications) :
        /\ notifications[i].booking = resp.id
        /\ notifications[i].notification_type = "booking_confirmed"
        /\ notifications[i].user = bookings[resp.id].user

\* C4: a complete request sets the status to completed only for the host, on
\* a confirmed booking whose end_date is not after today; the host's request
\* on a confirmed booking before its end_date fails with PreconditionFailed
\* and the booking stays confirmed.
C4_CompleteGuard ==
    [][resp'.op = "complete" =>
       \A user \in Users, pk \in {resp'.id} :
          complete(user, pk) =>
              IF /\ pk \in DOMAIN bookings /\ IsHost(user, pk)
                 /\ bookings[pk].status = "confirmed"
                 /\ bookings[pk].end_date <= today
              THEN /\ resp'.error = ""
                   /\ bookings'[pk].status = "completed"
              ELSE /\ resp'.error # ""
                   /\ bookings' = bookings
                   /\ (/\ pk \in DOMAIN bookings /\ IsHost(user, pk)
                       /\ bookings[pk].status = "confirmed")
                      => (resp'.error = "PreconditionFailed" /\ resp'.code = 400)]_vars

\* C4 witness: a complete request on a confirmed booking has just failed
\* because its end_date is still ahead
C4_Witness ==
    /\ resp.op = "complete" /\ resp.error = "PreconditionFailed"
    /\ bookings[resp.id].status = "confirmed"
    /\ bookings[resp.id].end_date > today

\* C5: a cancel request succeeds only for the booking's requester or the
\* property's host and only on a pending or confirmed booking; anyone else,
\* and any request on a cancelled or completed booking, gets an error and the
\* bookings and notifications stay as they were.
C5_CancelGuard ==
    [][resp'.op = "cancel" =>
       \A user \in Users, pk \in {resp'.id}, stored \in BOOLEAN :
          cancel(user, pk, stored) =>
              IF /\ pk \in DOMAIN bookings
                 /\ (bookings[pk].user = user \/ IsHost(user, pk))
                 /\ bookings[pk].status \in {"pending", "confirmed"}
              THEN /\ resp'.error = ""
                   /\ bookings'[pk].status \in {"canceled", "cancelled"}
              ELSE /\ resp'.error # ""
                   /\ resp'.code >= 400
                   /\ bookings' = bookings
                   /\ notifications' = notifications]_vars

\* C5 witness: a cancel request on a cancelled or completed booking has just
\* been refused
C5_Witness ==
    /\ resp.op = "cancel" /\ resp.error = "PreconditionFailed"
    /\ bookings[resp.id].status \in {"canceled", "cancelled", "completed"}

Terminal == {"canceled", "cancelled", "completed"}

\* C6: once a booking is canceled, cancelled or completed its status never
\* changes again, a pending booking only becomes confirmed or cancelled and a
\* confirmed booking only becomes completed or cancelled.
C6_TerminalStatuses ==
    [][\A pk \in DOMAIN bookings \cap DOMAIN bookings' :
          LET old == bookings[pk].status
              new == bookings'[pk].status
          IN  /\ old \in Terminal => new = old
              /\ old = "pending" => new \in {"pending", "confirmed", "canceled", "cancelled"}
              /\ old = "confirmed" => new \in {"confirmed", "completed", "canceled", "cancelled"}]_vars

\* C7: the booking a successful admission has just persisted is pending.
C7_AdmittedPending ==
    (resp.op = "create" /\ resp.error = "") => bookings[resp.id].status = "pending"

\* guests of the row a request asks for: Booking.guests defaults to 1
RequestedGuests(data) == IF data.guests = None THEN 1 ELSE data.guests

\* the five admission conditions, read off the stored rows
Admissible(data) ==
    /\ data.property_id \in DOMAIN properties
    /\ properties[data.property_id].is_available
    /\ RequestedGuests(data) <= properties[data.property_id].max_guests
    /\ data.start_date < data.end_date
    /\ \A b \in DOMAIN bookings :
          (bookings[b].property = data.property_id /\ Active(b))
          => Nights(b) \cap (data.start_date .. (data.end_date - 1)) = {}

\* C8: an admission request persists a booking only if the property exists,
\* is available, the guest count fits, start_date < end_date and no
\* pending/confirmed booking overlaps; a request failing one of these gets a
\* client error (4xx) and no row is created.
C8_AdmissionChecks ==
    [][resp'.op = "create" =>
       \A user \in Users, data \in RequestData :
          Create(user, data) =>
              /\ bookings' # bookings => Admissible(data)
              /\ ~Admissible(data) =>
                    /\ bookings' = bookings
                    /\ resp'.code \in 400..499]_vars

\* C9: the booking an admission has just persisted carries
\* price_per_night * nights, not the total the client sent; the inline
\* computation agrees with calculate_booking_total on every valid range, and
\* rate 100 over three nights gives 300.
C9_TotalPrice ==
    /\ (resp.op = "create" /\ resp.error = "") =>
          LET b == bookings[resp.id] IN
          /\ b.total_price =
                properties[b.property].price_per_night * (b.end_date - b.start_date)
          /\ b.total_price = calculate_booking_total(
                properties[b.property].price_per_night, b.start_date, b.end_date)
    /\ resp = Idle =>
       \A data \in RequestData :
          (data.property_id \in DOMAIN properties /\ data.start_date < data.end_date)
          => validated_total_price(properties, data, ClientTotal) =
                calculate_booking_total(properties[data.property_id].price_per_night,
                                        data.start_date, data.end_date)
    /\ calculate_booking_total(100, 1, 4) = 300

\* C9 witness: a booking of several nights at rate 100 has just been admitted
\* with a total that is not the client's
C9_Witness ==
    /\ resp.op = "create" /\ resp.error = ""
    /\ properties[bookings[resp.id].property].price_per_night = 100
    /\ bookings[resp.id].end_date - bookings[resp.id].start_date >= 2
    /\ bookings[resp.id].total_price =
          100 * (bookings[resp.id].end_date - bookings[resp.id].start_date)
    /\ bookings[resp.id].total_price # ClientTotal

\* C10: the total_price of a stored booking never changes.
C10_TotalPriceImmutable ==
    [][\A pk \in DOMAIN bookings \cap DOMAIN bookings' :
          bookings'[pk].total_price = bookings[pk].total_price]_vars

\* C11: check_property_availability returns FALSE whenever the property's
\* is_available flag is unset; with the flag set it returns TRUE exactly when
\* no pending/confirmed booking of the property other than the excluded one
\* has start_date < end and end_date > start.  The call writes nothing, and
\* the same call on the state it leaves returns the same value.
C11_AvailabilityChecker ==
    /\ [](resp.op = "check_property_availability" =>
            /\ ~properties[resp.id].is_available => resp.available = FALSE
            /\ properties[resp.id].is_available =>
                  (resp.available <=>
                      ~\E b \in DOMAIN bookings :
                          /\ bookings[b].property = resp.id
                          /\ bookings[b].status \in {"pending", "confirmed"}
                          /\ b # resp.exclude_booking
                          /\ bookings[b].start_date < resp.end_date
                          /\ bookings[b].end_date > resp.start_date))
    /\ [][resp'.op = "check_property_availability" =>
            /\ UNCHANGED <<properties, bookings, booking_seq, notifications, tasks>>
            /\ resp'.available = check_property_availability(properties', bookings',
                   resp'.id, resp'.start_date, resp'.end_date, resp'.exclude_booking)]_vars

\* C11 witness: the helper has just returned FALSE for a property whose flag is
\* unset although no booking overlaps the range
C11_Witness ==
    /\ resp.op = "check_property_availability"
    /\ ~properties[resp.id].is_available
    /\ resp.available = FALSE
    /\ resp.start_date < resp.end_date
    /\ bookings # <<>>
    /\ \A b \in DOMAIN bookings :
          ~(bookings[b].start_date < resp.end_date /\ bookings[b].end_date > resp.start_date)

\* C12: the booking an admission has just persisted does not start before the
\* day of the request (a request with start_date < today is refused).
C12_NotInThePast ==
    (resp.op = "create" /\ resp.error = "") => bookings[resp.id].start_date >= today

\* C13: a successful confirm sends exactly one email task, for the booking's
\* guest, and stores exactly one notification, of type booking_confirmed and
\* owned by the guest.
C13_ConfirmNotifiesOnce ==
    [][(resp'.op = "confirm" /\ resp'.error = "") =>
          /\ Len(tasks') = Len(tasks) + 1
          /\ tasks'[Len(tasks')].booking = resp'.id
          /\ tasks'[Len(tasks')].user = bookings[resp'.id].user
          /\ Len(notifications') = Len(notifications) + 1
          /\ notifications'[Len(notifications')].notification_type = "booking_confirmed"
          /\ notifications'[Len(notifications')].user = bookings[resp'.id].user]_vars

\* C14: the notification a successful cancel stores is never owned by the
\* user who cancelled: it goes to the property's host when the guest
\* cancelled and to the guest when the host cancelled, also for a booking
\* whose guest is the host of the property.
C14_CancelNotifiesCounterparty ==
    [][(resp'.op = "cancel" /\ resp'.error = "") =>
       \A user \in Users, pk \in {resp'.id}, stored \in BOOLEAN :
          (cancel(user, pk, stored) /\ notifications' # notifications) =>
              LET n == notifications'[Len(notifications')] IN
              /\ n.user # user
              /\ user = bookings[pk].user => n.user = properties[bookings[pk].property].host
              /\ user # bookings[pk].user => n.user = bookings[pk].user]_vars

\* C15: an admission that persists a booking also sends one email task for it
\* and stores one notification owned by the property's host, the booking row
\* being in the table by then; an admission that is refused sends no task and
\* stores no notification.
C15_AdmissionNotifies ==
    [][resp'.op = "create" =>
          IF resp'.error = ""
          THEN /\ resp'.id \in DOMAIN bookings'
               /\ Len(tasks') = Len(tasks) + 1
               /\ tasks'[Len(tasks')].booking = resp'.id
               /\ Len(notifications') = Len(notifications) + 1
               /\ notifications'[Len(notifications')].booking = resp'.id
               /\ notifications'[Len(notifications')].user =
                      properties[bookings'[resp'.id].property].host
          ELSE /\ tasks' = tasks
               /\ notifications' = notifications]_vars

\* C16: a booking email task is retried at most 3 times and so runs at most 4
\* times; a retry is scheduled with a countdown of 60 seconds; a task ends as
\* FAILURE only after its 4th failed run, each failure logged; a task that
\* has succeeded or failed for good is never run or scheduled again.
C16_BoundedRetry ==
    /\ [](\A t \in DOMAIN tasks :
            /\ tasks[t].retries <= 3
            /\ tasks[t].runs <= 4
            /\ tasks[t].state = "RETRY" => tasks[t].countdown = 60
            /\ tasks[t].state = "FAILURE" =>
                  (tasks[t].runs = 4 /\ tasks[t].retries = 3 /\ tasks[t].logged = 4))
    /\ [][\A t \in DOMAIN tasks :
            tasks[t].state \in {"SUCCESS", "FAILURE"} => tasks'[t] = tasks[t]]_vars

\* C16 witness: a task whose four runs all failed, and a task that succeeded
\* on a retry
C16_Witness ==
    /\ \E t \in DOMAIN tasks : tasks[t].state = "FAILURE" /\ tasks[t].runs = 4
    /\ \E t \in DOMAIN tasks :
          tasks[t].state = "SUCCESS" /\ tasks[t].retries > 0 /\ tasks[t].countdown = 60

\* C17: an attempt of an email task, whatever its outcome, changes no
\* booking, notification or property row and no pending response; and a
\* booking request answered while a task of that booking is failing or has
\* failed is not answered with a server error.
C17_TaskIsolation ==
    /\ [][(\E t \in DOMAIN tasks : tasks'[t] # tasks[t]) =>
             UNCHANGED <<bookings, notifications, properties, booking_seq, resp>>]_vars
    /\ []((/\ resp.op \in {"create", "confirm"}
           /\ \E t \in DOMAIN tasks : tasks[t].state \in {"RETRY", "FAILURE"})
          => resp.code < 500)

\* C17 witness: the host's confirm has just succeeded on a booking whose
\* email task has exhausted its retries
C17_Witness ==
    /\ resp.op = "confirm" /\ resp.error = ""
    /\ bookings[resp.id].status = "confirmed"
    /\ \E t \in DOMAIN tasks :
          tasks[t].booking = resp.id /\ tasks[t].state = "FAILURE"

\* the positions of a recipient list whose send raised
FailedPositions(user_emails, delivered) == {i \in DOMAIN user_emails : ~delivered[i]}

\* C20: the bulk send handles every recipient whatever fails before it:
\* total_emails is the length of the list, successful_sends is the number of
\* recipients whose send returned, failed_sends the number whose send raised,
\* the two add up to total_emails, and errors holds one entry per failed
\* recipient, in list order.
C20_BulkTally ==
    resp.op = "send_bulk_promotional_emails" =>
        LET r == resp.result
            failed == FailedPositions(resp.user_emails, resp.delivered)
        IN  /\ r.total_emails = Len(resp.user_emails)
            /\ r.successful_sends + r.failed_sends = r.total_emails
            /\ r.failed_sends = Cardinality(failed)
            /\ r.successful_sends = Cardinality(DOMAIN resp.user_emails \ failed)
            /\ Len(r.errors) = Cardinality(failed)
            /\ \A e \in Emails :
                  Cardinality({k \in DOMAIN r.errors : r.errors[k] = e}) =
                  Cardinality({i \in failed : resp.user_emails[i] = e})

\* C20 witness: a list of three whose first send raised and whose later sends
\* went through
C20_Witness ==
    /\ resp.op = "send_bulk_promotional_emails"
    /\ Len(resp.user_emails) = 3
    /\ ~resp.delivered[1] /\ resp.delivered[2] /\ ~resp.delivered[3]
    /\ resp.result.successful_sends = 1
    /\ resp.result.failed_sends = 2

\* C18: of a host's confirm and a cancel racing on one pending booking only
\* one takes effect: once the cancel has been written the confirm fails its
\* guard, so a confirm never writes "confirmed" (and never stores its
\* notification) over a booking whose stored status is cancelled.
C18_ConfirmCancelExclusive ==
    [][inflight' # inflight =>
       \A slot \in Slots, stored \in BOOLEAN :
          TransitionSave(slot, stored) =>
             \A r \in inflight :
                (r.slot = slot /\ r.op = "confirm") =>
                    bookings[r.pk].status \notin {"canceled", "cancelled"}]_vars

\* C19: of two admission requests of one property that have both passed
\* validation and whose ranges are disjoint or touching, the one whose INSERT
\* runs first is persisted (no pending/confirmed booking overlapping it), and
\* so is the other after it: both are admitted in every interleaving.
C19_NonOverlappingBothAdmitted ==
    [][inflight' # inflight =>
       \A slot \in Slots :
          CreateSave(slot) =>
             \A r \in inflight : \A other \in inflight :
                (/\ r.slot = slot /\ other.slot # slot
                 /\ other.row.property = r.row.property
                 /\ (r.row.end_date <= other.row.start_date
                     \/ other.row.end_date <= r.row.start_date)
                 /\ \A b \in DOMAIN bookings :
                       (bookings[b].property = r.row.property /\ Active(b)) =>
                           ~(/\ bookings[b].start_date < r.row.end_date
                             /\ bookings[b].end_date > r.row.start_date))
                => /\ resp'.error = ""
                   /\ resp'.id \in DOMAIN bookings'
                   /\ bookings'[resp'.id] = r.row]_vars

\* the notifications, in table order, that the user does not own
OthersNotifications(ns, user) == SelectSeq(ns, LAMBDA n : n.user # user)

\* C21: mark_read, mark_all_read and the delete requests issued by a user
\* leave every notification owned by somebody else as it was: none of them
\* is modified and none is deleted.
C21_OwnerOnly ==
    [][resp'.op \in {"mark_read", "mark_all_read", "notification_destroy", "destroy"} =>
       \A user \in Users, pk \in BookingIds \cup NotificationIds :
          (\/ mark_read(user, pk)
           \/ mark_all_read(user)
           \/ NotificationDestroy(user, pk)
           \/ Destroy(user, pk))
          => OthersNotifications(notifications', user) =
             OthersNotifications(notifications, user)]_vars

\* C22: a review row is written only while its author holds a confirmed or
\* completed booking of the property, and no two review rows share property
\* and author, whatever the order of the statements of concurrent requests.
C22_ReviewNeedsBooking ==
    /\ [](\A i \in DOMAIN reviews : \A j \in DOMAIN reviews :
             (i # j) => ~(/\ reviews[i].property = reviews[j].property
                          /\ reviews[i].user = reviews[j].user))
    /\ [][Len(reviews') > Len(reviews) =>
             LET rv == reviews'[Len(reviews')] IN
             \E b \in DOMAIN bookings :
                 /\ bookings[b].property = rv.property
                 /\ bookings[b].user = rv.user
                 /\ bookings[b].status \in {"confirmed", "completed"}]_vars

\* C23: calculate_booking_total raises for every range of zero or negative
\* duration and otherwise returns price_per_night times the number of nights,
\* which is positive for a positive price: no call returns a total <= 0.
C23_PricingRejectsEmptyRange ==
    resp.op = "calculate_booking_total" =>
        /\ resp.price_per_night > 0
        /\ resp.end_date - resp.start_date <= 0 => resp.error = "ValueError"
        /\ resp.end_date - resp.start_date > 0 =>
              /\ resp.error = ""
              /\ resp.total = resp.price_per_night * (resp.end_date - resp.start_date)
        /\ resp.error = "" => resp.total > 0

\* C23 witness: the call has just raised for a range that ends before it starts
C23_Witness ==
    /\ resp.op = "calculate_booking_total"
    /\ resp.end_date < resp.start_date
    /\ resp.price_per_night = 100
    /\ resp.error = "ValueError"

\* the admission request for a range, with a guest count within the limit
AdmissionOf(property_id, start_date, end_date) ==
    [property_id |-> property_id, start_date |-> start_date, end_date |-> end_date,
     guests |-> properties[property_id].max_guests, status |-> NoStatus]

\* C26: the three availability decisions agree: whenever the availability
\* endpoint answers for (property, start_date, end_date), it reports available
\* exactly when check_property_availability returns true for the same
\* arguments and exactly when BookingSerializer.validate accepts an admission
\* of that range with a valid guest count, ranges with start_date >= end_date
\* included.
C26_AvailabilityAgrees ==
    (resp.op = "availability" /\ resp.code = 200) =>
        /\ resp.available =
              check_property_availability(properties, bookings, resp.id,
                                          resp.start_date, resp.end_date, None)
        /\ resp.available =
              (validate(properties, bookings,
                        AdmissionOf(resp.id, resp.start_date, resp.end_date), None) = "")

\* C25: a cancelled booking frees its dates: whenever
\* check_property_availability returns true for the range of an admission
\* request with start_date < end_date and a guest count within the limit, the
\* request is answered 201 and a booking for that range is stored, also when
\* the range is exactly that of an earlier cancelled booking.
C25_CancelledDatesAreFree ==
    [][resp'.op = "create" =>
          \A user \in Guests, data \in LifecycleRequests :
              (/\ Create(user, data)
               /\ check_property_availability(properties, bookings, data.property_id,
                                              data.start_date, data.end_date, None))
              => /\ resp'.code = 201
                 /\ Len(bookings') = Len(bookings) + 1
                 /\ bookings'[Len(bookings')].start_date = data.start_date
                 /\ bookings'[Len(bookings')].end_date = data.end_date
                 /\ bookings'[Len(bookings')].property = data.property_id]_vars

\* the tasks that render a template
TemplateTasks == {"send_booking_confirmation_email", "send_booking_reminder_email"}

\* C24: in the confirmation and reminder tasks an attempt whose template
\* rendering raised goes on with the plain-text body: when the backend sends
\* the message the attempt succeeds with exactly one more email sent and no
\* retry consumed, and the attempt is retried or failed only when the send
\* returned zero or something outside the rendering raised.
C24_TemplateFallback ==
    [][tasks' # tasks =>
          \A t \in DOMAIN tasks, outcome \in SendOutcomes :
              (RunTask(t, FALSE, outcome) /\ tasks[t].name \in TemplateTasks) =>
                  /\ outcome # "raises" => tasks'[t].body = "text"
                  /\ outcome = "sent" =>
                        /\ tasks'[t].state = "SUCCESS"
                        /\ tasks'[t].retries = tasks[t].retries
                        /\ tasks'[t].emails = tasks[t].emails + 1
                  /\ tasks'[t].state \in {"RETRY", "FAILURE"} =>
                        outcome \in {"zero", "raises"}]_vars

\* C24 witness: a confirmation or reminder task that succeeded at its first
\* attempt with the plain-text fallback body
C24_Witness ==
    \E t \in DOMAIN tasks :
        /\ tasks[t].name \in TemplateTasks
        /\ tasks[t].state = "SUCCESS"
        /\ tasks[t].body = "text"
        /\ tasks[t].retries = 0
        /\ tasks[t].emails = 1

\* C28: no booking email task reports success for an attempt in which the
\* backend sent no email: a task in state SUCCESS has had an email sent, and
\* an attempt whose send returned zero ends in RETRY or FAILURE.
C28_ZeroSendFails ==
    /\ [](\A t \in DOMAIN tasks : tasks[t].state = "SUCCESS" => tasks[t].emails >= 1)
    /\ [][tasks' # tasks =>
             \A t \in DOMAIN tasks, rendered \in BOOLEAN :
                 RunTask(t, rendered, "zero") => tasks'[t].state \in {"RETRY", "FAILURE"}]_vars

\* C27: a failure to record the notification never undoes or fails the
\* transition: a confirm or cancel that passed its guards while
\* create_notification failed stores the new status, is answered 200 and
\* leaves the notifications as they were.
C27_TransitionSurvivesNotificationFailure ==
    [][resp'.op \in {"confirm", "cancel"} =>
          \A user \in Users, pk \in DOMAIN bookings :
              /\ (confirm(user, pk, FALSE) /\ bookings' # bookings) =>
                    /\ resp'.code = 200 /\ resp'.error = ""
                    /\ bookings'[pk].status = "confirmed"
                    /\ notifications' = notifications
              /\ (cancel(user, pk, FALSE) /\ bookings' # bookings) =>
                    /\ resp'.code = 200 /\ resp'.error = ""
                    /\ bookings'[pk].status = "cancelled"
                    /\ notifications' = notifications]_vars

\* C27 witness: a cancel has just succeeded and no notification about the
\* booking exists
C27_Witness ==
    /\ resp.op = "cancel" /\ resp.code = 200
    /\ resp.id \in DOMAIN bookings
    /\ bookings[resp.id].status = "cancelled"
    /\ \A n \in DOMAIN notifications : notifications[n].booking # resp.id

\* C29: every stored booking has a status declared by Booking.Status; the
\* values written by cancel and complete are declared; a booking cancelled
\* through cancel is counted in cancelled_bookings by get_user_booking_stats
\* (so the four per-status counts add up to total_bookings) and is in no
\* overlap set, so it never blocks availability.
C29_DeclaredStatuses ==
    /\ [](\A b \in DOMAIN bookings : bookings[b].status \in Status)
    /\ [](resp.op = "get_user_booking_stats" =>
            resp.stats.total_bookings =
                resp.stats.pending_bookings + resp.stats.confirmed_bookings
                + resp.stats.completed_bookings + resp.stats.cancelled_bookings)
    /\ [][(resp'.op \in {"cancel", "complete"} /\ resp'.code = 200) =>
             LET pk == resp'.id
                 booking == bookings'[pk]
             IN  /\ booking.status \in Status
                 /\ resp'.op = "cancel" =>
                       /\ get_user_booking_stats(bookings', booking.user).cancelled_bookings
                            = get_user_booking_stats(bookings, booking.user).cancelled_bookings + 1
                       /\ \A start_date \in 1..MaxDate, end_date \in 1..MaxDate :
                             pk \notin overlapping_bookings(bookings', booking.property,
                                                            start_date, end_date, None)]_vars

\* C29 witness: the statistics of a guest have just been computed while one of
\* their bookings is cancelled with the spelling written by cancel and another
\* is completed
C29_Witness ==
    /\ resp.op = "get_user_booking_stats"
    /\ resp.stats.cancelled_bookings = 1
    /\ resp.stats.completed_bookings = 1
    /\ \E b \in DOMAIN bookings :
          bookings[b].user = resp.user /\ bookings[b].status = "cancelled"

\* an admission request that is malformed or incomplete: no or unknown
\* property id, no guest count, too many guests, or an empty or reversed range
Malformed(data) ==
    \/ data.property_id \notin PropertyIds
    \/ data.guests = None
    \/ data.guests # None /\ data.guests > properties[data.property_id].max_guests
    \/ data.start_date >= data.end_date

\* C30: a malformed or incomplete admission request never ends in an internal
\* failure: a create or update with such a body is answered with a 4xx
\* validation error, except that a request which only omits the guest count
\* may be admitted with one guest.
C30_MalformedIsClientError ==
    [][resp'.op \in {"create", "update"} =>
          \A user \in Guests, data \in RequestData :
              Malformed(data) =>
                  /\ Create(user, data) =>
                        \/ resp'.code \in 400..499
                        \/ /\ data.guests = None /\ resp'.code = 201
                           /\ bookings'[Len(bookings')].guests = 1
                  /\ \A pk \in BookingIds :
                        Update(user, pk, data) =>
                            \/ resp'.code \in 400..499
                            \/ data.guests = None /\ resp'.code = 200]_vars

====
